---- MODULE Spec2Model ----
(***************************************************************************)
(* Model of scripts/fetch-prices.js: the resumable, rate-limited crawl of  *)
(* the market listing.  One process run is fetchAllPrices driven by the    *)
(* webSession handler; the durable artifact latest.json survives between   *)
(* runs.  Time is the millisecond clock Date.now(); the model's clock      *)
(* stays inside January 1970 so that every value fits TLC's integers while *)
(* the day-of-week arithmetic is the real one.                             *)
(***************************************************************************)
EXTENDS Integers, Sequences, FiniteSets, TLC

\* ------------------------------------------------------------------------
\* Program constants (fetch-prices.js lines 8-12)
DELAY_MS == 5000
MAX_RETRIES == 5
PAGE_SIZE == 10
MAX_RUNTIME_MS == 90 * 60 * 1000
SAVE_EVERY == 100

\* `let totalCount = Infinity`: larger than every offset the model reaches.
Infinity == 2147483647

\* Milliseconds of one UTC day, the unit of setUTCDate/setUTCHours.
DAY_MS == 86400000

\* ------------------------------------------------------------------------
\* Bounds of the model
MaxRuns == 2                 \* process runs in one behaviour
MaxFaults == 6               \* faults the remote injects into a first run
LaterFaults == 1             \* faults it injects into a run after the first
FaultyPages == 3             \* faults strike the first pages of a run only
SmallListing == 25           \* remote listing of 25 items (3 pages)
LargeListing == 110          \* remote listing long enough for SAVE_EVERY
MaxClock == 2000000000       \* last clock value (ms), within January 1970
MaxKeys == 2                 \* properties of an object given to save

FirstStart == 4 * DAY_MS     \* the first run starts on Monday 1970-01-05T00:00Z
ShortGap == DAY_MS \div 2    \* 12 hours between two runs
LongGap == 7 * DAY_MS        \* 7 days between two runs

RemoteSizes == {SmallListing, LargeListing}
Gaps == {ShortGap, LongGap}

VARIABLES
    now,               \* Date.now()
    file,              \* the artifact static/latest.json
    remoteTotal,       \* number of items the remote listing holds
    run,               \* number of process runs started
    pc,                \* where the run is suspended
    forceFetch,        \* process.env.FORCE_FETCH === "true"
    computedAction,    \* determineRunAction(metadata).action
    runAction,         \* runAction.action after the override
    prices,            \* the working mapping
    start,             \* the crawl offset
    startTime,         \* Date.now() at line 174
    totalCount,        \* Infinity until the first response
    rateLimitRetries,
    itemsSinceLastSave,
    attempt,           \* fetchWithRetry's loop variable
    interrupted,       \* onExit's single-shot guard
    handlerInstalled,  \* process.on("SIGINT"/"SIGTERM", onExit) done
    exitCode,          \* process.exit status, -1 while running
    outcome,           \* which path ended the run
    requests,          \* history: offsets requested this run, in order, an
                       \* offset requested again at once listed one time
    repeated,          \* history: some request of this run repeated an offset
    faultsLeft,        \* environment: faults it may still inject
    clean,             \* history: the remote injected no fault into this run
    rlWaits,           \* history: waits of the current rate-limit streak
    lastSave,          \* history: arguments and time of the last save()
    dirty,             \* history: a request or merge happened since last save
    runStart,          \* history: offset the run started from
    truncated          \* history: an empty page cut this cycle short

vars == <<now, file, remoteTotal, run, pc, forceFetch, computedAction, runAction,
          prices, start, startTime, totalCount, rateLimitRetries,
          itemsSinceLastSave, attempt, interrupted, handlerInstalled, exitCode,
          outcome, requests, repeated, faultsLeft, clean, rlWaits, lastSave, dirty,
          runStart, truncated>>

\* ------------------------------------------------------------------------
\* Helpers
RECURSIVE Pow2(_)
Pow2(n) == IF n <= 0 THEN 1 ELSE 2 * Pow2(n - 1)

Min(a, b) == IF a < b THEN a ELSE b
Max(a, b) == IF a < b THEN b ELSE a

\* `{}`: the empty mapping from item name to price.
EmptyPrices == [n \in {} |-> 0]

\* ------------------------------------------------------------------------
\* Dates.  An ISO-8601 string of January 1970 is its fields; parsing puts
\* them together again.
toISOString(t) ==
    [kind |-> "iso",
     D  |-> t \div DAY_MS + 1,
     h  |-> (t % DAY_MS) \div 3600000,
     mi |-> (t % 3600000) \div 60000,
     s  |-> (t % 60000) \div 1000,
     ms |-> t % 1000]

\* new Date(string).getTime() for a string that parses.
DateParse(iso) ==
    ((((iso.D - 1) * 24 + iso.h) * 60 + iso.mi) * 60 + iso.s) * 1000 + iso.ms

\* getUTCDay(): 0 = Sunday ... 6 = Saturday; 1970-01-01 was a Thursday.
getUTCDay(t) == (4 + t \div DAY_MS) % 7

\* The variant a wrong weekday offset would give (Sunday as the boundary).
getMostRecentMonday_Sunday(t) ==
    LET day == getUTCDay(t)
        daysSinceMonday == (day + 7) % 7
    IN  (t \div DAY_MS - daysSinceMonday) * DAY_MS

getMostRecentMonday(t) ==
    LET day == getUTCDay(t)
        daysSinceMonday == (day + 6) % 7
    IN  (t \div DAY_MS - daysSinceMonday) * DAY_MS

\* ------------------------------------------------------------------------
\* The artifact and its metadata.  null is NULL; an absent field is a field
\* the record does not have.
NULL == [null |-> TRUE]
Absent == [state |-> "absent"]
Corrupt == [state |-> "corrupt"]

\* metadata.resume_from || 0
resumeFromOf(metadata) ==
    IF metadata # NULL /\ "resume_from" \in DOMAIN metadata
    THEN metadata.resume_from ELSE 0

determineRunAction(metadata, t) ==
    IF metadata = NULL THEN "reset"
    ELSE LET resumeFrom == resumeFromOf(metadata)
             hasUpdatedAt == "updated_at" \in DOMAIN metadata
             monday == getMostRecentMonday(t)
         IN  IF ~hasUpdatedAt \/ metadata.updated_at.kind # "iso" THEN "reset"
             ELSE LET updatedAt == DateParse(metadata.updated_at)
                      isThisWeek == updatedAt >= monday
                  IN  IF resumeFrom > 0 /\ ~isThisWeek THEN "reset"
                      ELSE IF resumeFrom > 0 /\ isThisWeek THEN "resume"
                      ELSE IF resumeFrom = 0 /\ isThisWeek THEN "skip"
                      ELSE "reset"

\* Lines 43-60, were the fallback of line 59 to return metadata that is not
\* null.
loadExisting_Stamped(f) ==
    IF f.state = "json"
    THEN [prices |-> f.prices,
          resumeFrom |-> resumeFromOf(f.metadata),
          metadata |-> f.metadata]
    ELSE [prices |-> EmptyPrices, resumeFrom |-> 0,
          metadata |-> [updated_at |-> toISOString(FirstStart)]]

loadExisting(f) ==
    IF f.state = "json"
    THEN [prices |-> f.prices,
          resumeFrom |-> resumeFromOf(f.metadata),
          metadata |-> f.metadata]
    ELSE [prices |-> EmptyPrices, resumeFrom |-> 0, metadata |-> NULL]

save(p, resumeFrom, t) ==
    LET metadata == [updated_at |-> toISOString(t),
                     currency |-> "USD",
                     item_count |-> Cardinality(DOMAIN p)]
    IN  [state |-> "json",
         metadata |-> IF resumeFrom > 0
                      THEN [updated_at |-> metadata.updated_at,
                            currency |-> metadata.currency,
                            item_count |-> metadata.item_count,
                            resume_from |-> resumeFrom]
                      ELSE metadata,
         prices |-> p]

\* The override of lines 139-142, as if it spared no computed action.
applyForceFetch_Always(force, action) ==
    IF force THEN "reset" ELSE action

applyForceFetch(force, action) ==
    IF force /\ action # "resume" THEN "reset" ELSE action

\* ------------------------------------------------------------------------
\* The remote listing.  Item i (from 0) has a name (0 stands for a missing or
\* empty hash_name) and a price; from item 32 on some entries are malformed,
\* zero-priced or repeat the name of the entry before them.
Remote(i) ==
    [hash_name |-> IF i >= 32 /\ i % 16 = 3 THEN 0
                   ELSE IF i >= 32 /\ i % 16 = 6 THEN i
                   ELSE i + 1,
     sell_price |-> IF i >= 32 /\ i % 16 = 9 THEN 0 ELSE 100 + i,
     price_is_number |-> ~(i >= 32 /\ i % 16 = 12)]

\* The response to a page request at `offset` when the remote answers.
FetchPage(offset) ==
    [total_count |-> remoteTotal,
     results |-> [k \in 1..Max(0, Min(PAGE_SIZE, remoteTotal - offset))
                     |-> Remote(offset + k - 1)]]

\* The response the remote gives while it throttles.
RateLimited == [total_count |-> 0, results |-> <<>>]

\* A page without entries although the listing is not empty.
EmptyPage == [total_count |-> remoteTotal, results |-> <<>>]

\* Lines 228-232 for one entry, were the test `cents > 0` left out.
MergeItem_AnyPrice(p, item) ==
    IF item.hash_name # 0 /\ item.price_is_number
    THEN [n \in DOMAIN p \cup {item.hash_name} |->
             IF n = item.hash_name THEN item.sell_price ELSE p[n]]
    ELSE p

\* Lines 228-232 for one entry.
MergeItem(p, item) ==
    IF item.hash_name # 0 /\ item.price_is_number /\ item.sell_price > 0
    THEN [n \in DOMAIN p \cup {item.hash_name} |->
             IF n = item.hash_name THEN item.sell_price ELSE p[n]]
    ELSE p

\* Lines 227-233: the entries of one page, in order.
RECURSIVE MergePage(_, _)
MergePage(p, results) ==
    IF results = <<>> THEN p
    ELSE MergePage(MergeItem(p, Head(results)), Tail(results))

\* 60000 * Math.pow(2, rateLimitRetries - 1), were it not to grow.
rateLimitWait_Flat(k) == 60000

rateLimitWait(k) == 60000 * Pow2(k - 1)

\* DELAY_MS * Math.pow(2, attempt), were it not to grow.
retryDelay_Flat(a) == DELAY_MS

\* DELAY_MS * Math.pow(2, attempt)
retryDelay(a) == DELAY_MS * Pow2(a)

AwaitPoints == {"fetch", "backoff", "rlwait", "pagedelay"}

\* ------------------------------------------------------------------------
\* Initial state: no process has run; the artifact is missing or unreadable.
NoSave == [resumeFrom |-> 0, at |-> 0, run |-> 0, offset |-> 0]

Init ==
    /\ now = FirstStart
    /\ file \in {Absent, Corrupt}
    /\ remoteTotal \in RemoteSizes
    /\ run = 0
    /\ pc = "idle"
    /\ forceFetch = FALSE
    /\ computedAction = "none"
    /\ runAction = "none"
    /\ prices = EmptyPrices
    /\ start = 0
    /\ startTime = 0
    /\ totalCount = Infinity
    /\ rateLimitRetries = 0
    /\ itemsSinceLastSave = 0
    /\ attempt = 0
    /\ interrupted = FALSE
    /\ handlerInstalled = FALSE
    /\ exitCode = -1
    /\ outcome = "none"
    /\ requests = <<>>
    /\ repeated = FALSE
    /\ faultsLeft = 0
    /\ clean = TRUE
    /\ rlWaits = <<>>
    /\ lastSave = NoSave
    /\ dirty = FALSE
    /\ runStart = 0
    /\ truncated = FALSE

\* save(p, resumeFrom) called when the clock reads t and the offset is o.
DoSave(p, resumeFrom, t, o) ==
    /\ file' = save(p, resumeFrom, t)
    /\ lastSave' = [resumeFrom |-> resumeFrom, at |-> t, run |-> run,
                    offset |-> o]
    /\ dirty' = FALSE

\* process.exit(code), or the handler's process.exit(0) after a return.
Exit(code, how) ==
    /\ pc' = "exited"
    /\ exitCode' = code
    /\ outcome' = how

\* A page request for offset o goes out (https.get, line 88).
Request(o) ==
    /\ requests' = IF requests # <<>> /\ requests[Len(requests)] = o
                   THEN requests ELSE Append(requests, o)
    /\ repeated' = (repeated \/ \E i \in 1..Len(requests) : requests[i] = o)

\* The remote may fail or throttle the request in flight.
CanFault ==
    /\ faultsLeft > 0
    /\ start < runStart + FaultyPages * PAGE_SIZE

\* What the remote may answer to the request in flight.
Answers ==
    {FetchPage(start)} \cup (IF CanFault THEN {RateLimited, EmptyPage} ELSE {})

\* An answer other than the page asked for uses up one fault.
Answered(data) ==
    /\ faultsLeft' = IF data = FetchPage(start) THEN faultsLeft ELSE faultsLeft - 1
    /\ clean' = (clean /\ data = FetchPage(start))

\* A wait of `ms` is over.
Elapse(ms) ==
    /\ ms <= MaxClock - now
    /\ now' = now + ms

\* A response arrives: at once, or after a time as long as the whole budget.
Respond == \E lat \in {0, MAX_RUNTIME_MS} : Elapse(lat)

\* Lines 148-150 and 286-287, were the skip to stamp the artifact anew.
SkipRun_Saves ==
    /\ Exit(0, "Skipped")
    /\ handlerInstalled' = FALSE
    /\ DoSave(prices', 0, now', start')
    /\ UNCHANGED <<startTime, truncated>>

\* Lines 148-150 and 286-287: `skip` returns at once and the process exits.
SkipRun ==
    /\ Exit(0, "Skipped")
    /\ handlerInstalled' = FALSE
    /\ UNCHANGED <<file, lastSave, startTime, dirty, truncated>>

\* ------------------------------------------------------------------------
\* Lines 283-288 and 134-179: a new process, from the webSession handler to the
\* first evaluation of the loop condition.
StartRun ==
    /\ pc \in {"idle", "exited"}
    /\ run < MaxRuns
    /\ run = 0 \/ clean
    /\ \E force \in (IF file.state = "json" THEN BOOLEAN ELSE {FALSE}),
          gap \in (IF run = 0 THEN {0} ELSE Gaps) :
        LET t == now + gap
            loaded == loadExisting(file)
            computed == determineRunAction(loaded.metadata, t)
            action == applyForceFetch(force, computed)
            first == IF action = "resume" THEN loaded.resumeFrom ELSE 0
        IN  /\ gap <= MaxClock - now
            /\ now' = t
            /\ run' = run + 1
            /\ forceFetch' = force
            /\ computedAction' = computed
            /\ runAction' = action
            /\ prices' = IF action = "reset" THEN EmptyPrices ELSE loaded.prices
            /\ start' = first
            /\ runStart' = first
            /\ requests' = <<>>
            /\ repeated' = FALSE
            /\ clean' = TRUE
            /\ rlWaits' = <<>>
            /\ interrupted' = FALSE
            /\ attempt' = 0
            /\ totalCount' = Infinity
            /\ rateLimitRetries' = 0
            /\ itemsSinceLastSave' = 0
            /\ IF action = "skip"
               THEN SkipRun
               ELSE /\ pc' = "loop"
                    /\ exitCode' = -1
                    /\ outcome' = "none"
                    /\ handlerInstalled' = TRUE
                    /\ startTime' = t
                    /\ dirty' = TRUE
                    /\ truncated' = (action = "resume" /\ truncated)
                    /\ UNCHANGED <<file, lastSave>>
            /\ faultsLeft' = IF run = 0 THEN MaxFaults ELSE LaterFaults
            /\ UNCHANGED remoteTotal

\* Variables no step of the fetch loop touches.
RunFrame == UNCHANGED <<remoteTotal, run, forceFetch, computedAction, runAction,
                        startTime, handlerInstalled, runStart>>

\* Lines 182-195, were the test of line 184 missing.
LoopRequest_NoBudget ==
    /\ pc = "loop"
    /\ start < totalCount
    /\ pc' = "fetch"
    /\ attempt' = 0
    /\ Request(start)
    /\ dirty' = TRUE
    /\ RunFrame
    /\ UNCHANGED truncated
    /\ UNCHANGED <<now, file, prices, start, totalCount, rateLimitRetries,
                   itemsSinceLastSave, interrupted, exitCode, outcome,
                   faultsLeft, clean, rlWaits, lastSave>>

\* Lines 182-195: the loop goes on and the budget is not used up: the request
\* of attempt 0 goes out.
LoopRequest ==
    /\ pc = "loop"
    /\ start < totalCount
    /\ now - startTime < MAX_RUNTIME_MS
    /\ pc' = "fetch"
    /\ attempt' = 0
    /\ Request(start)
    /\ dirty' = TRUE
    /\ RunFrame
    /\ UNCHANGED truncated
    /\ UNCHANGED <<now, file, prices, start, totalCount, rateLimitRetries,
                   itemsSinceLastSave, interrupted, exitCode, outcome,
                   faultsLeft, clean, rlWaits, lastSave>>

\* Lines 184-188, were the budget to end the run without the save of line 186.
TimeBudget_NoSave ==
    /\ pc = "loop"
    /\ start < totalCount
    /\ now - startTime >= MAX_RUNTIME_MS
    /\ Exit(0, "TimeBudget")
    /\ RunFrame
    /\ UNCHANGED truncated
    /\ UNCHANGED <<now, file, lastSave, dirty, prices, start, totalCount,
                   rateLimitRetries, itemsSinceLastSave, attempt, interrupted,
                   requests, repeated, faultsLeft, clean, rlWaits>>

\* Lines 184-188: the time budget is reached.
TimeBudget ==
    /\ pc = "loop"
    /\ start < totalCount
    /\ now - startTime >= MAX_RUNTIME_MS
    /\ DoSave(prices, start, now, start)
    /\ Exit(0, "TimeBudget")
    /\ RunFrame
    /\ UNCHANGED truncated
    /\ UNCHANGED <<now, prices, start, totalCount, rateLimitRetries,
                   itemsSinceLastSave, attempt, interrupted, requests, repeated,
                   faultsLeft, clean, rlWaits>>

\* Lines 182, 256-257, were the final save to carry the offset as every other
\* save does.
LoopDone_KeepsOffset ==
    /\ pc = "loop"
    /\ ~(start < totalCount)
    /\ DoSave(prices, start, now, start)
    /\ Exit(0, "Completed")
    /\ RunFrame
    /\ UNCHANGED truncated
    /\ UNCHANGED <<now, prices, start, totalCount, rateLimitRetries,
                   itemsSinceLastSave, attempt, interrupted, requests, repeated,
                   faultsLeft, clean, rlWaits>>

\* Lines 182, 256-257: the loop condition fails; the final save.
LoopDone ==
    /\ pc = "loop"
    /\ ~(start < totalCount)
    /\ DoSave(prices, 0, now, start)
    /\ Exit(0, "Completed")
    /\ RunFrame
    /\ UNCHANGED truncated
    /\ UNCHANGED <<now, prices, start, totalCount, rateLimitRetries,
                   itemsSinceLastSave, attempt, interrupted, requests, repeated,
                   faultsLeft, clean, rlWaits>>

\* Lines 124-129: an attempt fails and another one is left.
FetchFailRetry ==
    /\ pc = "fetch"
    /\ CanFault
    /\ attempt # MAX_RETRIES
    /\ Respond
    /\ pc' = "backoff"
    /\ faultsLeft' = faultsLeft - 1
    /\ clean' = FALSE
    /\ RunFrame
    /\ UNCHANGED truncated
    /\ UNCHANGED <<file, prices, start, totalCount, rateLimitRetries,
                   itemsSinceLastSave, attempt, interrupted, exitCode, outcome,
                   requests, repeated, rlWaits, lastSave, dirty>>

\* Line 129, 121-123: the backoff is over; the next attempt's request goes out.
BackoffDone ==
    /\ pc = "backoff"
    /\ Elapse(retryDelay(attempt))
    /\ attempt' = attempt + 1
    /\ pc' = "fetch"
    /\ Request(start)
    /\ RunFrame
    /\ UNCHANGED truncated
    /\ UNCHANGED <<file, prices, start, totalCount, rateLimitRetries,
                   itemsSinceLastSave, interrupted, exitCode, outcome,
                   faultsLeft, clean, rlWaits, lastSave, dirty>>

\* Lines 124-129, were the test of line 128 missing: the last attempt is
\* followed by a backoff like every other.
FetchFailFatal_Retries ==
    /\ pc = "fetch"
    /\ CanFault
    /\ attempt = MAX_RETRIES
    /\ Respond
    /\ pc' = "backoff"
    /\ faultsLeft' = faultsLeft - 1
    /\ clean' = FALSE
    /\ RunFrame
    /\ UNCHANGED truncated
    /\ UNCHANGED <<file, prices, start, totalCount, rateLimitRetries,
                   itemsSinceLastSave, attempt, interrupted, exitCode, outcome,
                   requests, repeated, rlWaits, lastSave, dirty>>

\* Lines 128, 249-253, were the catch to save without the offset.
FetchFailFatal_NoOffset ==
    /\ pc = "fetch"
    /\ CanFault
    /\ attempt = MAX_RETRIES
    /\ Respond
    /\ DoSave(prices, 0, now', start)
    /\ Exit(1, "FetchFailed")
    /\ faultsLeft' = faultsLeft - 1
    /\ clean' = FALSE
    /\ RunFrame
    /\ UNCHANGED truncated
    /\ UNCHANGED <<prices, start, totalCount, rateLimitRetries,
                   itemsSinceLastSave, attempt, interrupted, requests, repeated, rlWaits>>

\* Lines 128, 249-253: the last attempt fails; the error reaches the catch.
FetchFailFatal ==
    /\ pc = "fetch"
    /\ CanFault
    /\ attempt = MAX_RETRIES
    /\ Respond
    /\ DoSave(prices, start, now', start)
    /\ Exit(1, "FetchFailed")
    /\ faultsLeft' = faultsLeft - 1
    /\ clean' = FALSE
    /\ RunFrame
    /\ UNCHANGED truncated
    /\ UNCHANGED <<prices, start, totalCount, rateLimitRetries,
                   itemsSinceLastSave, attempt, interrupted, requests, repeated, rlWaits>>

\* Lines 197-198, 249-253: the body parses to null; reading data.total_count
\* throws and the error reaches the catch.
FetchMalformed ==
    /\ pc = "fetch"
    /\ CanFault
    /\ Respond
    /\ DoSave(prices, start, now', start)
    /\ Exit(1, "BadResponse")
    /\ faultsLeft' = faultsLeft - 1
    /\ clean' = FALSE
    /\ RunFrame
    /\ UNCHANGED truncated
    /\ UNCHANGED <<prices, start, totalCount, rateLimitRetries,
                   itemsSinceLastSave, attempt, interrupted, requests, repeated, rlWaits>>

\* Lines 197-200: totalCount after a response.
seenTotal(data) == IF totalCount = Infinity THEN data.total_count ELSE totalCount

\* Lines 202, 205: the response is taken for a rate-limit signal.
isRateLimit(data) ==
    /\ Len(data.results) = 0
    /\ seenTotal(data) # Infinity
    /\ data.total_count = 0

\* Lines 205-218: a rate-limit signal with retries left: save, then wait.
RateLimitSignal ==
    /\ pc = "fetch"
    /\ \E data \in Answers :
          /\ isRateLimit(data)
          /\ totalCount' = seenTotal(data)
          /\ Answered(data)
    /\ rateLimitRetries + 1 < MAX_RETRIES
    /\ Respond
    /\ rateLimitRetries' = rateLimitRetries + 1
    /\ DoSave(prices, start, now', start)
    /\ rlWaits' = Append(rlWaits, rateLimitWait(rateLimitRetries + 1))
    /\ pc' = "rlwait"
    /\ RunFrame
    /\ UNCHANGED truncated
    /\ UNCHANGED <<prices, start, itemsSinceLastSave, attempt, interrupted,
                   exitCode, outcome, requests, repeated>>

\* Lines 205-213, were the exhausted retries to end the run as a failure.
RateLimitExhausted_Fails ==
    /\ pc = "fetch"
    /\ \E data \in Answers :
          /\ isRateLimit(data)
          /\ totalCount' = seenTotal(data)
          /\ Answered(data)
    /\ rateLimitRetries + 1 >= MAX_RETRIES
    /\ Respond
    /\ rateLimitRetries' = rateLimitRetries + 1
    /\ DoSave(prices, start, now', start)
    /\ Exit(1, "RateLimitExhausted")
    /\ RunFrame
    /\ UNCHANGED truncated
    /\ UNCHANGED <<prices, start, itemsSinceLastSave, attempt, interrupted,
                   requests, repeated, rlWaits>>

\* Lines 205-213: the rate-limit signal that uses up the retries.
RateLimitExhausted ==
    /\ pc = "fetch"
    /\ \E data \in Answers :
          /\ isRateLimit(data)
          /\ totalCount' = seenTotal(data)
          /\ Answered(data)
    /\ rateLimitRetries + 1 >= MAX_RETRIES
    /\ Respond
    /\ rateLimitRetries' = rateLimitRetries + 1
    /\ DoSave(prices, start, now', start)
    /\ Exit(0, "RateLimitExhausted")
    /\ RunFrame
    /\ UNCHANGED truncated
    /\ UNCHANGED <<prices, start, itemsSinceLastSave, attempt, interrupted,
                   requests, repeated, rlWaits>>

\* Lines 217-218: the rate-limit wait is over; `continue`.
RlWaitDone ==
    /\ pc = "rlwait"
    /\ Elapse(rlWaits[Len(rlWaits)])
    /\ pc' = "loop"
    /\ RunFrame
    /\ UNCHANGED truncated
    /\ UNCHANGED <<file, prices, start, totalCount, rateLimitRetries,
                   itemsSinceLastSave, attempt, interrupted, exitCode, outcome,
                   requests, repeated, faultsLeft, clean, rlWaits, lastSave, dirty>>

\* Lines 202, 221-222, 256-257: an empty page that is no rate-limit signal:
\* `break`, then the final save.
EndOfResults ==
    /\ pc = "fetch"
    /\ \E data \in Answers :
          /\ Len(data.results) = 0
          /\ ~isRateLimit(data)
          /\ totalCount' = seenTotal(data)
          /\ Answered(data)
    /\ Respond
    /\ DoSave(prices, 0, now', start)
    /\ Exit(0, "Completed")
    /\ truncated' = (truncated \/ start < remoteTotal)
    /\ RunFrame
    /\ UNCHANGED <<prices, start, rateLimitRetries, itemsSinceLastSave, attempt,
                   interrupted, requests, repeated, rlWaits>>

\* Lines 225-247, were the periodic save to come before the merge of the page.
PageConsumed_SavesEarly ==
    /\ pc = "fetch"
    /\ Respond
    /\ \E data \in Answers :
        LET total == seenTotal(data)
            merged == MergePage(prices, data.results)
            next == start + PAGE_SIZE
            items == itemsSinceLastSave + Len(data.results)
        IN  /\ Len(data.results) > 0
            /\ Answered(data)
            /\ totalCount' = total
            /\ rateLimitRetries' = 0
            /\ rlWaits' = <<>>
            /\ prices' = merged
            /\ start' = next
            /\ IF items >= SAVE_EVERY
               THEN /\ DoSave(prices, IF next < total THEN next ELSE 0, now', next)
                    /\ itemsSinceLastSave' = 0
               ELSE /\ itemsSinceLastSave' = items
                    /\ dirty' = TRUE
                    /\ UNCHANGED <<file, lastSave>>
            /\ pc' = IF next < total THEN "pagedelay" ELSE "loop"
    /\ RunFrame
    /\ UNCHANGED truncated
    /\ UNCHANGED <<attempt, interrupted, exitCode, outcome, requests, repeated>>

\* Lines 225-247: a page with entries is merged and the offset advances.
PageConsumed ==
    /\ pc = "fetch"
    /\ Respond
    /\ \E data \in Answers :
        LET total == seenTotal(data)
            merged == MergePage(prices, data.results)
            next == start + PAGE_SIZE
            items == itemsSinceLastSave + Len(data.results)
        IN  /\ Len(data.results) > 0
            /\ Answered(data)
            /\ totalCount' = total
            /\ rateLimitRetries' = 0
            /\ rlWaits' = <<>>
            /\ prices' = merged
            /\ start' = next
            /\ IF items >= SAVE_EVERY
               THEN /\ DoSave(merged, IF next < total THEN next ELSE 0, now', next)
                    /\ itemsSinceLastSave' = 0
               ELSE /\ itemsSinceLastSave' = items
                    /\ dirty' = TRUE
                    /\ UNCHANGED <<file, lastSave>>
            /\ pc' = IF next < total THEN "pagedelay" ELSE "loop"
    /\ RunFrame
    /\ UNCHANGED truncated
    /\ UNCHANGED <<attempt, interrupted, exitCode, outcome, requests, repeated>>

\* Line 246, were the delay left out.
PageDelayDone_NoWait ==
    /\ pc = "pagedelay"
    /\ Elapse(0)
    /\ pc' = "loop"
    /\ RunFrame
    /\ UNCHANGED truncated
    /\ UNCHANGED <<file, prices, start, totalCount, rateLimitRetries,
                   itemsSinceLastSave, attempt, interrupted, exitCode, outcome,
                   requests, repeated, faultsLeft, clean, rlWaits, lastSave, dirty>>

\* Line 246: the delay between two pages is over.
PageDelayDone ==
    /\ pc = "pagedelay"
    /\ Elapse(DELAY_MS)
    /\ pc' = "loop"
    /\ RunFrame
    /\ UNCHANGED truncated
    /\ UNCHANGED <<file, prices, start, totalCount, rateLimitRetries,
                   itemsSinceLastSave, attempt, interrupted, exitCode, outcome,
                   requests, repeated, faultsLeft, clean, rlWaits, lastSave, dirty>>

\* Lines 164-172, were the handler to return without process.exit(0).
onExit_Returns ==
    /\ pc \in AwaitPoints
    /\ handlerInstalled
    /\ ~interrupted
    /\ interrupted' = TRUE
    /\ DoSave(prices, start, now, start)
    /\ RunFrame
    /\ UNCHANGED truncated
    /\ UNCHANGED <<now, pc, exitCode, outcome, prices, start, totalCount,
                   rateLimitRetries, itemsSinceLastSave, attempt, requests,
                   repeated, faultsLeft, clean, rlWaits>>

\* Lines 164-172: SIGINT or SIGTERM is delivered while the run is suspended in
\* an await.
onExit ==
    /\ pc \in AwaitPoints
    /\ handlerInstalled
    /\ ~interrupted
    /\ interrupted' = TRUE
    /\ DoSave(prices, start, now, start)
    /\ Exit(0, "Interrupted")
    /\ RunFrame
    /\ UNCHANGED truncated
    /\ UNCHANGED <<now, prices, start, totalCount, rateLimitRetries,
                   itemsSinceLastSave, attempt, requests, repeated, faultsLeft, clean,
                   rlWaits>>

Next ==
    \/ StartRun
    \/ LoopRequest
    \/ TimeBudget
    \/ LoopDone
    \/ FetchFailRetry
    \/ BackoffDone
    \/ FetchFailFatal
    \/ FetchMalformed
    \/ RateLimitSignal
    \/ RateLimitExhausted
    \/ RlWaitDone
    \/ EndOfResults
    \/ PageConsumed
    \/ PageDelayDone
    \/ onExit

Spec == Init /\ [][Next]_vars

\* ------------------------------------------------------------------------
\* Runs against a remote that may go on failing and throttling for as long as
\* it likes, under the scheduling the runtime gives: a pending request is
\* answered or fails, a timer fires, and code that can run does run.

\* The remote, its supply of faults used up, is ready to fail or throttle
\* the pending request again.
Refill ==
    /\ pc = "fetch"
    /\ faultsLeft = 0
    /\ faultsLeft' = MaxFaults
    /\ UNCHANGED <<now, file, remoteTotal, run, pc, forceFetch, computedAction,
                   runAction, prices, start, startTime, totalCount,
                   rateLimitRetries, itemsSinceLastSave, attempt, interrupted,
                   handlerInstalled, exitCode, outcome, requests, repeated,
                   clean, rlWaits, lastSave, dirty, runStart, truncated>>

\* A step of the run itself: the code at the head of the loop, the outcome of
\* the pending request, or the end of a wait.
Progress ==
    \/ LoopRequest
    \/ TimeBudget
    \/ LoopDone
    \/ FetchFailRetry
    \/ BackoffDone
    \/ FetchFailFatal
    \/ FetchMalformed
    \/ RateLimitSignal
    \/ RateLimitExhausted
    \/ RlWaitDone
    \/ EndOfResults
    \/ PageConsumed
    \/ PageDelayDone

\* A listing of two pages, the second one short.
LiveListing == PAGE_SIZE + PAGE_SIZE \div 2

\* One run, from an artifact that is absent or cannot be parsed.
LiveInit ==
    /\ now = FirstStart
    /\ file \in {Absent, Corrupt}
    /\ remoteTotal = LiveListing
    /\ run = 0
    /\ pc = "idle"
    /\ forceFetch = FALSE
    /\ computedAction = "none"
    /\ runAction = "none"
    /\ prices = EmptyPrices
    /\ start = 0
    /\ startTime = 0
    /\ totalCount = Infinity
    /\ rateLimitRetries = 0
    /\ itemsSinceLastSave = 0
    /\ attempt = 0
    /\ interrupted = FALSE
    /\ handlerInstalled = FALSE
    /\ exitCode = -1
    /\ outcome = "none"
    /\ requests = <<>>
    /\ repeated = FALSE
    /\ faultsLeft = 0
    /\ clean = TRUE
    /\ rlWaits = <<>>
    /\ lastSave = NoSave
    /\ dirty = FALSE
    /\ runStart = 0
    /\ truncated = FALSE

LiveStart == run = 0 /\ StartRun

LiveNext ==
    \/ LiveStart
    \/ Progress
    \/ onExit
    \/ Refill

LiveSpec == LiveInit /\ [][LiveNext]_vars /\ WF_vars(Progress)

\* ------------------------------------------------------------------------
\* The Run Planner on its own: determineRunAction applied to sampled metadata
\* at sampled times.
PlanTimes ==
    {0, FirstStart - DAY_MS, FirstStart - 1, FirstStart, FirstStart + 1,
     FirstStart + 3 * DAY_MS, FirstStart + 7 * DAY_MS - 1, FirstStart + 7 * DAY_MS}

PlanResumes == {-5, 0, 5, 10}

\* Artifacts as an earlier program, or a hand, may have left them: updated_at
\* present, unparsable or missing; resume_from present or missing.
PlanFiles ==
    LET base == [currency |-> "USD", item_count |-> 0]
        stamped(u) == base @@ ("updated_at" :> toISOString(u))
        garbage == base @@ ("updated_at" :> [kind |-> "garbage"])
        json(m) == [state |-> "json", metadata |-> m, prices |-> EmptyPrices]
    IN  {Absent, Corrupt, json(NULL)}
        \cup {json(base), json(garbage)}
        \cup {json(base @@ ("resume_from" :> r)) : r \in PlanResumes}
        \cup {json(garbage @@ ("resume_from" :> r)) : r \in PlanResumes}
        \cup {json(stamped(u)) : u \in PlanTimes}
        \cup {json(stamped(u) @@ ("resume_from" :> r)) :
                 u \in PlanTimes, r \in PlanResumes}

PlanInit ==
    /\ now \in PlanTimes
    /\ file \in PlanFiles
    /\ pc = "plan"
    /\ remoteTotal = SmallListing
    /\ run = 0
    /\ forceFetch = FALSE
    /\ computedAction = "none"
    /\ runAction = "none"
    /\ prices = EmptyPrices
    /\ start = 0
    /\ startTime = 0
    /\ totalCount = Infinity
    /\ rateLimitRetries = 0
    /\ itemsSinceLastSave = 0
    /\ attempt = 0
    /\ interrupted = FALSE
    /\ handlerInstalled = FALSE
    /\ exitCode = -1
    /\ outcome = "none"
    /\ requests = <<>>
    /\ repeated = FALSE
    /\ faultsLeft = 0
    /\ clean = TRUE
    /\ rlWaits = <<>>
    /\ lastSave = NoSave
    /\ dirty = FALSE
    /\ runStart = 0
    /\ truncated = FALSE

\* Line 138: let runAction = determineRunAction(metadata).
Plan ==
    /\ pc = "plan"
    /\ pc' = "planned"
    /\ computedAction' = determineRunAction(loadExisting(file).metadata, now)
    /\ UNCHANGED <<now, file, remoteTotal, run, forceFetch, runAction, prices,
                   start, startTime, totalCount, rateLimitRetries,
                   itemsSinceLastSave, attempt, interrupted, handlerInstalled,
                   exitCode, outcome, requests, repeated, faultsLeft, clean,
                   rlWaits, lastSave, dirty, runStart, truncated>>

PlanNext == Plan

PlanSpec == PlanInit /\ [][PlanNext]_vars

\* ------------------------------------------------------------------------
\* save on its own, with the object `prices` as JavaScript keeps it: property
\* names are strings (sequences of UTF-16 code units) and an object lists its
\* own keys with the array indices first, in numeric order, and the other
\* names after them in the order they were created.  Here an object is the
\* sequence of its properties in the order of creation.

\* The name is a canonical array index: decimal digits without a leading zero.
isArrayIndex(k) ==
    /\ Len(k) >= 1
    /\ \A i \in 1..Len(k) : k[i] \in 48..57
    /\ Len(k) = 1 \/ k[1] # 48

\* The number a string of digits denotes.
RECURSIVE ToNumber(_)
ToNumber(k) ==
    IF k = <<>> THEN 0
    ELSE 10 * ToNumber(SubSeq(k, 1, Len(k) - 1)) + (k[Len(k)] - 48)

\* The comparison of Array.prototype.sort without a comparator: by code units.
RECURSIVE strLess(_, _)
strLess(a, b) ==
    IF b = <<>> THEN FALSE
    ELSE IF a = <<>> THEN TRUE
    ELSE IF a[1] # b[1] THEN a[1] < b[1]
    ELSE strLess(Tail(a), Tail(b))

\* Array.prototype.sort on an array of different strings.
sort(seq) ==
    LET n == Len(seq)
        p == CHOOSE q \in [1..n -> 1..n] :
                 /\ \A i, j \in 1..n : i # j => q[i] # q[j]
                 /\ \A i, j \in 1..n : i < j => strLess(seq[q[i]], seq[q[j]])
    IN  [i \in 1..n |-> seq[p[i]]]

\* Array indices in numeric order.
indexOrder(seq) ==
    LET n == Len(seq)
        p == CHOOSE q \in [1..n -> 1..n] :
                 /\ \A i, j \in 1..n : i # j => q[i] # q[j]
                 /\ \A i, j \in 1..n : i < j => ToNumber(seq[q[i]]) < ToNumber(seq[q[j]])
    IN  [i \in 1..n |-> seq[p[i]]]

isName(k) == ~isArrayIndex(k)

\* Object.keys(obj): the array indices in numeric order, then the other names
\* in the order of creation.
ObjectKeys(obj) ==
    LET created == [i \in 1..Len(obj) |-> obj[i].key]
    IN  indexOrder(SelectSeq(created, isArrayIndex)) \o SelectSeq(created, isName)

\* The place of property k in obj.
Get(obj, k) == CHOOSE i \in 1..Len(obj) : obj[i].key = k

\* Lines 63-66: the keys sorted by Array.prototype.sort, then created one by
\* one in a new object.
sortedObject(obj) ==
    LET keys == sort(ObjectKeys(obj))
    IN  [i \in 1..Len(keys) |-> obj[Get(obj, keys[i])]]

\* The object as a mapping, the order of its keys forgotten.
AsMap(obj) ==
    [k \in {obj[i].key : i \in 1..Len(obj)} |-> obj[Get(obj, k)].value]

\* Lines 62-78: the artifact save(prices, resumeFrom) writes at time t, with
\* the keys of "prices" in the order JSON.stringify emits them.
saveObject(obj, resumeFrom, t) ==
    LET sorted == sortedObject(obj)
        written == save(AsMap(sorted), resumeFrom, t)
    IN  [state |-> "json", metadata |-> written.metadata,
         prices |-> written.prices, keys |-> ObjectKeys(sorted)]

\* Names: "10", "9", "07", "B", "a", "ab".
SaveNames == {<<49, 48>>, <<57>>, <<48, 55>>, <<66>>, <<97>>, <<97, 98>>}

\* Objects of up to MaxKeys properties, in every order of creation.
SaveObjects ==
    LET entries == [key : SaveNames, value : {150, 275}]
    IN  {obj \in UNION {[1..n -> entries] : n \in 0..MaxKeys} :
            \A i, j \in 1..Len(obj) : i # j => obj[i].key # obj[j].key}

\* The artifact a call of save finds.
SaveFiles ==
    {Absent,
     [state |-> "json",
      metadata |-> [updated_at |-> toISOString(0), currency |-> "USD",
                    item_count |-> 1, resume_from |-> 7 * PAGE_SIZE],
      prices |-> (<<122>> :> 999), keys |-> <<<<122>>>>]}

SaveInit ==
    /\ now = FirstStart
    /\ file \in SaveFiles
    /\ prices \in SaveObjects
    /\ start \in {0, PAGE_SIZE}
    /\ pc = "save"
    /\ remoteTotal = SmallListing
    /\ run = 0
    /\ forceFetch = FALSE
    /\ computedAction = "none"
    /\ runAction = "none"
    /\ startTime = 0
    /\ totalCount = Infinity
    /\ rateLimitRetries = 0
    /\ itemsSinceLastSave = 0
    /\ attempt = 0
    /\ interrupted = FALSE
    /\ handlerInstalled = FALSE
    /\ exitCode = -1
    /\ outcome = "none"
    /\ requests = <<>>
    /\ repeated = FALSE
    /\ faultsLeft = 0
    /\ clean = TRUE
    /\ rlWaits = <<>>
    /\ lastSave = NoSave
    /\ dirty = TRUE
    /\ runStart = 0
    /\ truncated = FALSE

\* Lines 62-84: one call save(prices, start).
SaveCall ==
    /\ pc = "save"
    /\ pc' = "saved"
    /\ file' = saveObject(prices, start, now)
    /\ dirty' = FALSE
    /\ UNCHANGED <<now, remoteTotal, run, forceFetch, computedAction, runAction,
                   prices, start, startTime, totalCount, rateLimitRetries,
                   itemsSinceLastSave, attempt, interrupted, handlerInstalled,
                   exitCode, outcome, requests, repeated, faultsLeft, clean,
                   rlWaits, lastSave, runStart, truncated>>

SaveNext == SaveCall

SaveSpec == SaveInit /\ [][SaveNext]_vars

\* ------------------------------------------------------------------------
\* Properties

\* The instants that are a Monday 00:00:00.000 UTC, 1970-01-05 being a Monday.
MondayMidnights == {(4 + 7 * k) * DAY_MS : k \in -1..2}

\* The most recent Monday 00:00:00 UTC at time t.
CycleBoundary(t) ==
    CHOOSE b \in MondayMidnights : b <= t /\ t - b < 7 * DAY_MS

\* The instant an artifact of PlanFiles was stamped with, if it was.
StampOf(f) ==
    CHOOSE u \in PlanTimes \cup {-1} :
        IF f.state = "json" /\ f.metadata # NULL
           /\ "updated_at" \in DOMAIN f.metadata
           /\ f.metadata.updated_at.kind = "iso"
        THEN u >= 0 /\ f.metadata.updated_at = toISOString(u)
        ELSE u = -1

\* The action the planner's table asks for.
PlannedAction(f, t) ==
    LET hasMeta == f.state = "json" /\ f.metadata # NULL
        u == StampOf(f)
        r == IF hasMeta /\ "resume_from" \in DOMAIN f.metadata
             THEN f.metadata.resume_from ELSE 0
        b == CycleBoundary(t)
    IN  IF ~hasMeta \/ u = -1 THEN "reset"
        ELSE IF r > 0 /\ u < b THEN "reset"
        ELSE IF r > 0 /\ u >= b THEN "resume"
        ELSE IF r = 0 /\ u >= b THEN "skip"
        ELSE "reset"

\* C1: determineRunAction returns exactly one of reset, resume, skip, and it is
\* the one the planner's table gives for the metadata and the current time:
\* reset without metadata or without a parsable updated_at; with resume_from > 0,
\* reset before the most recent Monday 00:00 UTC and resume from it on; with
\* resume_from 0 or absent, skip from that boundary on; reset otherwise.
C1_PlannerTable ==
    pc = "planned" =>
        /\ computedAction \in {"reset", "resume", "skip"}
        /\ computedAction = PlannedAction(file, now)

\* C1 witness: the planner answered resume for an artifact stamped on the
\* boundary itself with a resume offset.
C1_Witness ==
    /\ pc = "planned"
    /\ computedAction = "resume"
    /\ StampOf(file) = CycleBoundary(now)
    /\ now > StampOf(file)

\* The offsets of the pages of a listing of n items: 0, P, 2P, ... below n.
PageOffsets(n) ==
    [k \in 1..((n + PAGE_SIZE - 1) \div PAGE_SIZE) |-> (k - 1) * PAGE_SIZE]

\* Entry i of the listing has a name, a numeric price, and the price is positive.
ValidEntry(i) ==
    Remote(i).hash_name # 0 /\ Remote(i).price_is_number /\ Remote(i).sell_price > 0

\* The mapping one uninterrupted run over the first n entries ends with: each
\* name of a valid entry, with the price of the last valid entry of that name.
MergedUpTo(n) ==
    LET valid == {i \in 0..(n - 1) : ValidEntry(i)}
        last(nm) == CHOOSE i \in valid :
                        /\ Remote(i).hash_name = nm
                        /\ \A j \in valid : Remote(j).hash_name = nm => j <= i
    IN  [nm \in {Remote(i).hash_name : i \in valid} |-> Remote(last(nm)).sell_price]

\* The first n items are valid and have n different names.
AllValid(n) == Cardinality(DOMAIN MergedUpTo(n)) = n

\* The run has just begun: no request has gone out.
JustStarted == pc = "loop" /\ requests = <<>>

hasResumeFrom(f) == f.state = "json" /\ "resume_from" \in DOMAIN f.metadata

\* C2: with FORCE_FETCH on, the effective action is resume exactly when the
\* planner computed resume and reset otherwise; with it off, the effective
\* action is the computed one.  A forced run whose computed action is resume
\* starts with the artifact's mapping and offset.
C2_ForcedReset ==
    /\ run > 0 =>
          runAction = IF ~forceFetch THEN computedAction
                      ELSE IF computedAction = "resume" THEN "resume"
                      ELSE "reset"
    /\ (JustStarted /\ forceFetch /\ computedAction = "resume") =>
          /\ prices = file.prices
          /\ hasResumeFrom(file)
          /\ start = file.metadata.resume_from

\* C2 witness: a forced run resumed an in-progress cycle.
C2_Witness ==
    /\ JustStarted
    /\ forceFetch
    /\ computedAction = "resume"
    /\ start > 0
    /\ prices # EmptyPrices

\* C3: a resumed run that ends Completed, in a cycle no empty page cut
\* short, leaves the mapping of one uninterrupted run over the same listing,
\* and requested no offset below the one it resumed from.
C3_ResumeCorrectness ==
    (pc = "exited" /\ outcome = "Completed" /\ runAction = "resume" /\ ~truncated) =>
        /\ file.prices = MergedUpTo(remoteTotal)
        /\ \A i \in 1..Len(requests) : requests[i] >= runStart

\* The last save found every remote item consumed, or an empty page had cut
\* the cycle short.
SavedComplete == lastSave.offset >= remoteTotal \/ truncated

\* C4: an artifact without resume_from was written with every remote item
\* consumed, and a run skips only after such a write.
C4_AbsentOnlyWhenComplete ==
    /\ (file.state = "json" /\ ~hasResumeFrom(file)) => SavedComplete
    /\ (pc = "exited" /\ outcome = "Skipped") => SavedComplete

\* C5: a run from reset that meets no fault and ends Completed requested
\* exactly the offsets 0, P, 2P, ... below N, each once and in this order, and
\* left an artifact without resume_from; when the N items are valid and
\* distinct, its item_count is N.
C5_EndToEnd ==
    (pc = "exited" /\ outcome = "Completed" /\ runAction = "reset" /\ clean) =>
        /\ requests = PageOffsets(remoteTotal)
        /\ ~repeated
        /\ ~hasResumeFrom(file)
        /\ AllValid(remoteTotal) => file.metadata.item_count = remoteTotal

\* C5 witness: the 25 valid items were fetched in three pages.
C5_Witness ==
    /\ pc = "exited" /\ outcome = "Completed" /\ runAction = "reset" /\ clean
    /\ AllValid(remoteTotal)
    /\ Len(requests) = 3
    /\ file.metadata.item_count = remoteTotal

\* The save of the present instant: the artifact is save(prices, start) as
\* written now, and reading it back gives the offset `start`.
SavedHere ==
    /\ file = save(prices, start, now)
    /\ loadExisting(file).prices = prices
    /\ loadExisting(file).resumeFrom = start
    /\ lastSave = [resumeFrom |-> start, at |-> now, run |-> run, offset |-> start]
    /\ ~dirty

\* C6: the waits of consecutive rate-limit signals of a run grow strictly, the
\* k-th being longer than the one before it; and when a wait begins the
\* artifact has just been written with the mapping and the current offset.
C6_RateLimitEscalation ==
    /\ \A k \in 2..Len(rlWaits) : rlWaits[k] > rlWaits[k - 1]
    /\ pc = "rlwait" =>
          /\ Len(rlWaits) = rateLimitRetries
          /\ rateLimitRetries < MAX_RETRIES
          /\ SavedHere

\* C6 witness: the wait after the third consecutive signal has begun.
C6_Witness ==
    /\ pc = "rlwait"
    /\ Len(rlWaits) = 3
    /\ start > 0

\* The run ended on the rate-limit signal that used up the retries.
Exhausted == pc = "exited" /\ outcome = "RateLimitExhausted"

\* C7: when the consecutive rate-limit signals reach MAX_RETRIES the run ends
\* with no further wait and no further request, the exit status is success,
\* and the artifact holds the mapping and the current offset as resume_from.
\* Within a run a step that changes the attempt counter leaves the rate-limit
\* counter alone and the other way round, and a step that advances the offset
\* (a non-empty page) leaves the rate-limit counter at zero.
C7_RateLimitExhaustion ==
    /\ [](Exhausted =>
            /\ rateLimitRetries = MAX_RETRIES
            /\ exitCode = 0
            /\ Len(rlWaits) = MAX_RETRIES - 1
            /\ requests[Len(requests)] = start
            /\ SavedHere
            /\ hasResumeFrom(file)
            /\ file.metadata.resume_from = start)
    /\ [][run' = run =>
            /\ attempt' # attempt => rateLimitRetries' = rateLimitRetries
            /\ rateLimitRetries' # rateLimitRetries => attempt' = attempt
            /\ start' # start => rateLimitRetries' = 0]_vars

\* C7 witness: a run that had consumed a page ended on exhausted retries.
C7_Witness ==
    /\ Exhausted
    /\ start > 0
    /\ prices # EmptyPrices
    /\ attempt = 0

\* The run ended because a page request failed on every attempt.
Failed == pc = "exited" /\ outcome = "FetchFailed"

\* C8: when the request of offset `start` fails on its last attempt the run
\* ends with status 1, that request being its last, and the artifact written
\* then holds the mapping and the offset; from the request's first attempt to
\* the exit neither the mapping nor the offset changes, and the artifact is
\* written once, at the end.
C8_FailedPath ==
    /\ [](Failed =>
            /\ exitCode = 1
            /\ attempt = MAX_RETRIES
            /\ requests[Len(requests)] = start
            /\ SavedHere)
    /\ [][(pc \in {"fetch", "backoff"} /\ (pc' \in {"fetch", "backoff"} \/ Failed')) =>
            /\ prices' = prices
            /\ start' = start
            /\ pc' \in {"fetch", "backoff"} => file' = file]_vars

\* C8 witness: the request of a later page failed on every attempt.
C8_Witness ==
    /\ Failed
    /\ start > 0
    /\ prices # EmptyPrices
    /\ file.metadata.resume_from = start

\* C9: a run of action reset or resume that has ended wrote the artifact
\* during this run, after its last request and its last change of the mapping:
\* the artifact holds the run's mapping as it is at the exit.
C9_SaveBeforeExit ==
    (pc = "exited" /\ runAction \in {"reset", "resume"}) =>
        /\ ~dirty
        /\ lastSave.run = run
        /\ lastSave.at = now
        /\ lastSave.resumeFrom \in {0, start}
        /\ file = save(prices, lastSave.resumeFrom, now)

\* C9 witness: a resumed run ended on the time budget with part of the
\* listing fetched.
C9_Witness ==
    /\ pc = "exited"
    /\ outcome = "TimeBudget"
    /\ runAction = "resume"
    /\ start > runStart

\* C10: a run whose action is skip sends no request, installs no handler, ends
\* with status 0 and leaves the artifact as an earlier run wrote it, updated_at
\* included.
C10_SkipFrame ==
    (pc = "exited" /\ outcome = "Skipped") =>
        /\ runAction = "skip"
        /\ requests = <<>>
        /\ ~handlerInstalled
        /\ exitCode = 0
        /\ lastSave.run < run
        /\ file = save(file.prices, lastSave.resumeFrom, lastSave.at)
        /\ DateParse(file.metadata.updated_at) < now

\* C10 witness: a run skipped a cycle an earlier run had completed.
C10_Witness ==
    /\ pc = "exited"
    /\ outcome = "Skipped"
    /\ file.metadata.item_count = remoteTotal

\* MergedUpTo for every prefix of the longest listing.
MergedTable == [n \in 0..Max(SmallListing, LargeListing) |-> MergedUpTo(n)]

\* The entries the remote holds from offset o on, a page at most.
PageLen(o) == Max(0, Min(PAGE_SIZE, remoteTotal - o))

\* Some entry of the page at offset o is not valid.
HasDropped(o) == \E i \in o..(o + PageLen(o) - 1) : ~ValidEntry(i)

\* C11: in a run that started with reset the mapping holds exactly the valid
\* entries consumed so far (a name, a numeric price, the price above zero), so
\* every key is a name and every value is positive; a page advances the offset
\* by PAGE_SIZE and the checkpoint counter by the number of its entries, valid
\* or not, and does not end the run.
C11_EntryFiltering ==
    /\ [](runAction = "reset" =>
            /\ prices = MergedTable[Min(start, remoteTotal)]
            /\ \A n \in DOMAIN prices : n # 0 /\ prices[n] > 0)
    /\ [][(run' = run /\ prices' # prices) =>
            /\ start' = start + PAGE_SIZE
            /\ pc' # "exited"
            /\ LET n == itemsSinceLastSave + PageLen(start)
               IN  itemsSinceLastSave' = IF n >= SAVE_EVERY THEN 0 ELSE n]_vars

\* C11 witness: a page with entries that were dropped has been consumed and
\* the run goes on.
C11_Witness ==
    /\ runAction = "reset"
    /\ pc = "pagedelay"
    /\ start >= PAGE_SIZE
    /\ HasDropped(start - PAGE_SIZE)
    /\ Cardinality(DOMAIN prices) < start
    /\ itemsSinceLastSave = start

\* The keys of the written artifact stand in ascending order of code units.
KeysAscending ==
    \A i, j \in 1..Len(file.keys) : i < j => strLess(file.keys[i], file.keys[j])

\* The written artifact holds the properties of `prices`, no other, with
\* their values; item_count is their number; resume_from is there exactly
\* when the offset given is positive, and is that offset.
SavedContent ==
    /\ DOMAIN file = {"state", "metadata", "prices", "keys"}
    /\ file.metadata.item_count = Len(prices)
    /\ Len(file.keys) = Len(prices)
    /\ DOMAIN file.prices = {prices[i].key : i \in 1..Len(prices)}
    /\ \A i \in 1..Len(prices) : file.prices[prices[i].key] = prices[i].value
    /\ \A i \in 1..Len(file.keys) : file.keys[i] \in DOMAIN file.prices
    /\ ("resume_from" \in DOMAIN file.metadata) <=> (start > 0)
    /\ start > 0 => file.metadata.resume_from = start
    /\ DOMAIN file.metadata \subseteq
           {"updated_at", "currency", "item_count", "resume_from"}

\* C12: the artifact save(prices, resumeFrom) writes has item_count equal to
\* the number of keys of prices, the keys in ascending order whatever the
\* order they were created in, the values given, resume_from exactly when
\* resumeFrom > 0, and nothing of the artifact it replaces.
C12_SaveWellFormed ==
    pc = "saved" => (SavedContent /\ KeysAscending)

\* The snapshot of line 59.
EmptySnapshot == [prices |-> EmptyPrices, resumeFrom |-> 0, metadata |-> NULL]

\* C13: of an artifact that is absent or cannot be parsed loadExisting returns
\* the empty snapshot, and a run that found such an artifact planned reset and
\* begins at offset 0 with an empty mapping.
C13_LoadNeverFails ==
    file.state # "json" =>
        /\ loadExisting(file) = EmptySnapshot
        /\ run > 0 =>
              /\ computedAction = "reset"
              /\ runAction = "reset"
              /\ runStart = 0
              /\ JustStarted => (start = 0 /\ prices = EmptyPrices)

\* C13 witness: a run has begun over an artifact that cannot be parsed.
C13_Witness ==
    /\ file = Corrupt
    /\ JustStarted
    /\ runAction = "reset"
    /\ start = 0
    /\ prices = EmptyPrices

\* The run was ended by SIGINT or SIGTERM.
Interrupted == pc = "exited" /\ outcome = "Interrupted"

\* C14: the first signal of a run arrives while the run is suspended in a page
\* request, a backoff, a rate-limit wait or the delay between pages; the step
\* that handles it writes save(prices, start) with the mapping and offset of
\* that moment, sends no request and exits with status 0.  Once a signal has
\* been handled the process writes nothing and requests nothing any more.
C14_Interruption ==
    /\ [](Interrupted => (interrupted /\ exitCode = 0 /\ SavedHere))
    /\ [][(~interrupted /\ interrupted') =>
            /\ pc \in AwaitPoints
            /\ pc' = "exited"
            /\ file' = save(prices, start, now)
            /\ <<prices, start, requests, now>>' = <<prices, start, requests, now>>]_vars
    /\ [][(interrupted /\ run' = run) =>
            UNCHANGED <<file, lastSave, requests, prices, start, pc>>]_vars

\* C14 witness: a signal ended a run that had met a rate-limit signal and a
\* failed attempt and had pages left to fetch.
C14_Witness ==
    /\ Interrupted
    /\ rateLimitRetries > 0
    /\ attempt > 0
    /\ start > 0
    /\ start < remoteTotal

\* The waits after failed attempts 0, 1, 2, 3, 4, in ms.
BackoffWaits == <<5000, 10000, 20000, 40000, 80000>>

\* C15: a page request is attempted at most MAX_RETRIES + 1 times (attempts
\* 0..MAX_RETRIES); a failed attempt a < MAX_RETRIES is followed by a wait of
\* DELAY_MS * 2^a and attempt a + 1 of the same offset; the failure of attempt
\* MAX_RETRIES ends the run at once; a response ends the attempts: it is
\* followed by no further attempt for that request.
C15_RetryBackoff ==
    /\ [](attempt \in 0..MAX_RETRIES /\ Len(BackoffWaits) = MAX_RETRIES)
    /\ [][(pc = "fetch" /\ pc' = "backoff") =>
            /\ attempt < MAX_RETRIES
            /\ <<attempt, requests, start>>' = <<attempt, requests, start>>]_vars
    /\ [][pc = "backoff" =>
            \/ /\ pc' = "fetch"
               /\ attempt' = attempt + 1
               /\ now' - now = BackoffWaits[attempt + 1]
               /\ now' - now = DELAY_MS * (2 ^ attempt)
               /\ start' = start
               /\ requests'[Len(requests')] = start
            \/ Interrupted']_vars
    /\ [][(pc = "fetch" /\ Failed') => attempt = MAX_RETRIES]_vars
    /\ [][(pc = "fetch" /\ pc' \notin {"fetch", "backoff"}) =>
            <<attempt, requests>>' = <<attempt, requests>>]_vars

\* C15 witness: after five failed attempts and their waits the sixth attempt
\* got the page.
C15_Witness ==
    /\ pc = "pagedelay"
    /\ attempt = MAX_RETRIES
    /\ start > 0
    /\ now - startTime >= 155000

\* A total count other than zero has been observed in this run.
SeenNonzeroTotal == totalCount # Infinity /\ totalCount > 0

\* C16: a response counts as a rate-limit signal only in a run that has
\* observed a total count other than zero before it; the first response of a
\* run is never counted.
C16_RateLimitDetection ==
    rateLimitRetries > 0 => SeenNonzeroTotal

\* C17: when the wait after a rate-limit signal is over the loop goes on at
\* the same offset, and the artifact written on the signal carries
\* resume_from whenever items remain unconsumed.
C17_RateLimitFrame ==
    /\ (pc = "loop" /\ rateLimitRetries > 0) => start < totalCount
    /\ (pc = "rlwait" /\ start < remoteTotal) =>
          (hasResumeFrom(file) /\ file.metadata.resume_from = start)

\* The run was ended by the time budget.
Suspended == pc = "exited" /\ outcome = "TimeBudget"

\* The time since the run began has reached the budget.
BudgetReached == now - startTime >= MAX_RUNTIME_MS

\* C18: every first attempt of a page request goes out with the budget not
\* reached, also after a rate-limit wait; when the loop is to go on with the
\* budget reached the run writes save(prices, start), sends no request and
\* exits with status 0, the artifact carrying resume_from = start.
C18_TimeBudget ==
    /\ [](Suspended =>
            /\ BudgetReached
            /\ exitCode = 0
            /\ SavedHere
            /\ hasResumeFrom(file)
            /\ file.metadata.resume_from = start)
    /\ [][(pc = "loop" /\ pc' = "fetch") => ~BudgetReached]_vars
    /\ [][(pc = "loop" /\ start < totalCount /\ BudgetReached /\ run' = run) =>
            /\ Suspended'
            /\ <<requests, prices, start, now>>' = <<requests, prices, start, now>>]_vars

\* C18 witness: the run was suspended at the budget test that follows a
\* rate-limit wait.
C18_Witness ==
    /\ Suspended
    /\ rateLimitRetries > 0
    /\ start < remoteTotal
    /\ prices # EmptyPrices

\* The step sends a request: the first attempt of a page or a retry.
SendsRequest == pc # "fetch" /\ pc' = "fetch"

\* C19: a request goes out from the head of the loop or at the end of a
\* backoff only; the head of the loop, with pages left, is reached from the
\* start of the run or through a wait of at least DELAY_MS (the page delay or
\* a rate-limit wait), and a backoff lasts at least DELAY_MS.  After the page
\* that brings the offset to the total count there is no wait: the run is at
\* the head of the loop at once and its next step is the final save.
C19_InterRequestWaits ==
    /\ [][SendsRequest => pc \in {"loop", "backoff"}]_vars
    /\ [][(pc = "backoff" /\ pc' = "fetch") => now' - now >= DELAY_MS]_vars
    /\ [][(pc # "loop" /\ pc' = "loop" /\ start' < totalCount') =>
            \/ run' # run
            \/ pc \in {"pagedelay", "rlwait"} /\ now' - now >= DELAY_MS]_vars
    /\ [][(pc = "fetch" /\ start' # start) =>
            pc' = IF start' < totalCount' THEN "pagedelay" ELSE "loop"]_vars
    /\ [][(pc = "loop" /\ ~(start < totalCount) /\ run' = run) =>
            /\ pc' = "exited"
            /\ outcome' = "Completed"
            /\ now' = now
            /\ requests' = requests]_vars

\* C19 witness: the last of three pages has been consumed and the run stands
\* at the head of the loop with nothing left to fetch.
C19_Witness ==
    /\ pc = "loop"
    /\ Len(requests) = 3
    /\ start >= totalCount
    /\ totalCount = remoteTotal
    /\ now - startTime >= 2 * DELAY_MS

\* The step merges a page.
MergesPage == pc = "fetch" /\ start' # start

\* C20: a run begins at offset 0 on reset and at the artifact's resume_from on
\* resume; within a run the offset changes only when a page with entries is
\* merged, and then by PAGE_SIZE, so it never goes below where the run began;
\* a resume_from written by the run is not below that either; and a periodic
\* save (the counter having reached SAVE_EVERY) writes the valid entries of
\* every page below the new offset.
C20_OffsetMonotonic ==
    /\ [](run > 0 =>
            /\ start >= runStart
            /\ runAction = "reset" => runStart = 0
            /\ (JustStarted /\ runAction = "resume") =>
                  (hasResumeFrom(file) /\ start = file.metadata.resume_from)
            /\ JustStarted => start = runStart
            /\ (lastSave.run = run /\ hasResumeFrom(file)) =>
                  file.metadata.resume_from \in runStart..start)
    /\ [][run' = run =>
            /\ start' \in {start, start + PAGE_SIZE}
            /\ start' # start =>
                  /\ pc = "fetch"
                  /\ PageLen(start) > 0
                  /\ prices' = MergePage(prices, FetchPage(start).results)]_vars
    /\ [][(MergesPage /\ itemsSinceLastSave + PageLen(start) >= SAVE_EVERY) =>
            /\ file' = save(prices', IF start' < totalCount' THEN start' ELSE 0, now')
            /\ file'.prices = MergedTable[Min(start', remoteTotal)]
            /\ itemsSinceLastSave' = 0]_vars
    /\ [][(MergesPage /\ itemsSinceLastSave + PageLen(start) < SAVE_EVERY) =>
            file' = file]_vars

\* C20 witness: the periodic save of a run, 100 entries after the offset it
\* began from, with pages left to fetch.
C20_Witness ==
    /\ pc = "pagedelay"
    /\ start = runStart + SAVE_EVERY
    /\ lastSave.run = run
    /\ hasResumeFrom(file)
    /\ file.metadata.resume_from = start
    /\ file.prices = prices
    /\ itemsSinceLastSave = 0

\* The run is under way.
Running == pc \in {"loop", "fetch", "backoff", "rlwait", "pagedelay"}

\* C21: a run under way ends, whatever pages, failures and rate-limit signals
\* the remote answers with and however often, given that requests are
\* answered or fail and waits come to an end; and it ends Completed, suspended
\* (time budget, interruption, rate-limit retries used up) or failed, with
\* status 0 or 1.
C21_Termination ==
    /\ [](pc = "exited" =>
            /\ outcome \in {"Completed", "Skipped", "TimeBudget", "Interrupted",
                            "RateLimitExhausted", "FetchFailed", "BadResponse"}
            /\ exitCode = IF outcome \in {"FetchFailed", "BadResponse"} THEN 1 ELSE 0)
    /\ Running ~> (pc = "exited")

\* C21 witness: a run ended after more faults than one supply holds: a
\* rate-limit signal at the second page, then six failed attempts.
C21_Witness ==
    /\ pc = "exited"
    /\ outcome = "FetchFailed"
    /\ rateLimitRetries > 0
    /\ attempt = MAX_RETRIES
    /\ start = PAGE_SIZE

====
